---- MODULE Spec2Model ----
(***************************************************************************)
(* Model of cheerio's src/utils.ts: isCheerio, camelCase, domEach,         *)
(* cloneDom and isHtml.                                                    *)
(*                                                                         *)
(* DOM nodes live in an arena: `heap` is a sequence of node records and a  *)
(* node's identity is its index.  Strings are sequences of UTF-16 code     *)
(* units, so charCodeAt is indexing.                                       *)
(***************************************************************************)
EXTENDS Integers, Sequences, FiniteSets, TLC

VARIABLES
    \* ---- cloneDom ----
    heap,       \* the node arena: Seq of [type, data, parent, children]
    dom,        \* the argument of cloneDom: a node, or a list of nodes
    clone,      \* the array cloneDom returned
    pre,        \* the arena when cloneDom was entered
    ret,        \* the arena when cloneDom returned
    mutated,    \* which graphs ("clone", "source") callers mutated since
    steps,      \* number of caller mutations since the return
    pcClone,    \* "idle" | "ready" | "returned"
    \* ---- domEach ----
    arrays,     \* the array store: reference -> sequence of elements
    array,      \* the reference passed to domEach
    len,        \* domEach's local `len`
    i,          \* domEach's local `i`
    calls,      \* the calls of fn so far: [elem, index, seen], where
                \* seen is the sequence as it was when fn was called
    entryLen,   \* length of the sequence when domEach was entered
    eachRet,    \* the reference domEach returned
    pcEach,     \* "idle" | "entry" | "loop" | "done" | "threw"
    \* ---- isHtml / camelCase ----
    str,        \* the argument string, a sequence of UTF-16 code units
    htmlOut,    \* the boolean isHtml returned
    camelOut,   \* the string camelCase returned
    pcStr,      \* "idle" | "ready" | "isHtml" | "camelCase"
    \* ---- isCheerio ----
    maybeCheerio,   \* the argument value
    argBefore,      \* the argument value when isCheerio was entered
    cheerioOut,     \* [threw, value]: a TypeError, or the boolean returned
    pcCheerio       \* "idle" | "ready" | "done"

cloneVars == <<heap, dom, clone, pre, ret, mutated, steps, pcClone>>
eachVars == <<arrays, array, len, i, calls, entryLen, eachRet, pcEach>>
strVars == <<str, htmlOut, camelOut, pcStr>>
cheerioVars == <<maybeCheerio, argBefore, cheerioOut, pcCheerio>>
vars == <<cloneVars, eachVars, strVars, cheerioVars>>

\* ---------------------------------------------------------------- bounds
MaxNodes == 3       \* nodes of the source arena (SpecClone)
MaxList == 2        \* length of a list passed to cloneDom (SpecClone)
MaxMutNodes == 2    \* nodes of the source arena (SpecIndep)
MaxMutList == 1     \* length of a list passed to cloneDom (SpecIndep)
MaxSteps == 2       \* caller mutations after cloneDom returned (SpecIndep)
MaxInitLen == 2     \* length of the sequence passed to domEach
MaxArrayLen == 3    \* length the callback may grow the sequence to
MaxStrLen == 4      \* length of the strings drawn from the alphabets

\* ------------------------------------------------------------- utilities
Range(s) == {s[k] : k \in DOMAIN s}

SeqsUpTo(S, n) == UNION {[1..k -> S] : k \in 0..n}

\* ---------------------------------------------- DOM arena (node library)

\* The null parent reference.
Null == 0

\* Node kinds: Document, Element, Text.
NodeTypes == {"root", "tag", "text"}

\* Kinds that carry a children array.
HasChildren(type) == type \in {"root", "tag"}

\* new Document(children): a parentless root owning the given array.
Document(children) ==
    [type |-> "root", data |-> Null, parent |-> Null, children |-> children]

\* The children of node p in parent map par, in document order.
RECURSIVE ChildrenOf(_, _, _)
ChildrenOf(par, p, k) ==
    IF k > Len(par) THEN <<>>
    ELSE (IF par[k] = p THEN <<k>> ELSE <<>>) \o ChildrenOf(par, p, k + 1)

\* Source arenas of n nodes: every parent precedes its children and node k
\* carries payload k, so that no two source nodes have the same payload.
SourceHeaps(n) ==
    { [k \in 1..n |->
          [type |-> ty[k], data |-> k, parent |-> par[k],
           children |-> ChildrenOf(par, k, 1)]] :
      par \in {p \in [1..n -> 0..n] :
                 \A k \in 1..n : p[k] < k},
      ty \in [1..n -> NodeTypes] }

\* Only container kinds have children, and a Document has no parent.
WellFormed(h) ==
    \A k \in DOMAIN h :
        /\ h[k].children # <<>> => HasChildren(h[k].type)
        /\ h[k].type = "root" => h[k].parent = Null

\* cloneNode(node, recursive) and its cloneChildren: a fresh node of the same
\* kind and payload; with `recursive`, fresh copies of the children, each
\* parented to the copy.  The copy itself has no parent.
RECURSIVE cloneNode(_, _, _), cloneEach(_, _, _)
cloneEach(h, nodes, recursive) ==
    IF nodes = <<>> THEN [heap |-> h, ids |-> <<>>]
    ELSE LET first == cloneNode(h, Head(nodes), recursive)
             rest == cloneEach(first.heap, Tail(nodes), recursive)
         IN [heap |-> rest.heap, ids |-> <<first.id>> \o rest.ids]

cloneNode(h, node, recursive) ==
    LET kids == IF recursive /\ HasChildren(h[node].type)
                THEN cloneEach(h, h[node].children, TRUE)
                ELSE [heap |-> h, ids |-> <<>>]
        id == Len(kids.heap) + 1
        copy == [type |-> h[node].type, data |-> h[node].data,
                 parent |-> Null, children |-> kids.ids]
        h1 == Append(kids.heap, copy)
    IN [heap |-> [k \in DOMAIN h1 |->
                    IF k \in Range(kids.ids)
                    THEN [h1[k] EXCEPT !.parent = id] ELSE h1[k]],
        id |-> id]

\* ------------------------------------------------------------- cloneDom

\* The nodes of the argument: a list is anything with a 'length'.
Elements(d) == IF d.hasLength THEN d.nodes ELSE <<d.node>>

\* 'length' in dom ? map.call(dom, el => cloneNode(el, r)) : [cloneNode(dom, r)]
mapClone(h, d, recursive) ==
    IF d.hasLength THEN cloneEach(h, d.nodes, recursive)
    ELSE LET one == cloneNode(h, d.node, recursive)
         IN [heap |-> one.heap, ids |-> <<one.id>>]

\* node.parent = root for every node of the array `nodes`.
SetParents(h, nodes, root) ==
    [k \in DOMAIN h |->
        IF k \in Range(nodes) THEN [h[k] EXCEPT !.parent = root] ELSE h[k]]

\* Mutant: the forEach is missing, so the parents of the copies stay null.
cloneDomNoParent(h, d) ==
    LET mapped == mapClone(h, d, TRUE)
    IN [heap |-> Append(mapped.heap, Document(mapped.ids)),
        clone |-> mapped.ids]

\* Mutant: forEach runs over `dom` instead of `clone`.
cloneDomReparentsSource(h, d) ==
    LET mapped == mapClone(h, d, TRUE)
        root == Len(mapped.heap) + 1
    IN [heap |-> SetParents(Append(mapped.heap, Document(mapped.ids)),
                            Elements(d), root),
        clone |-> mapped.ids]

\* Mutant: the nodes are not copied; the array holds the passed nodes.
cloneDomNoCopy(h, d) ==
    LET root == Len(h) + 1
    IN [heap |-> SetParents(Append(h, Document(Elements(d))), Elements(d), root),
        clone |-> Elements(d)]

\* Mutant: cloneNode(el, false).
cloneDomShallow(h, d) ==
    LET mapped == mapClone(h, d, FALSE)
        root == Len(mapped.heap) + 1
    IN [heap |-> SetParents(Append(mapped.heap, Document(mapped.ids)),
                            mapped.ids, root),
        clone |-> mapped.ids]

\* cloneDom(dom): map cloneNode(el, true) over the list (or the one node),
\* wrap the copies in a new Document and make it their parent.
cloneDom(h, d) ==
    LET mapped == mapClone(h, d, TRUE)
        root == Len(mapped.heap) + 1
    IN [heap |-> SetParents(Append(mapped.heap, Document(mapped.ids)),
                            mapped.ids, root),
        clone |-> mapped.ids]


\* The arguments cloneDom can be given over an arena of n nodes.
Inputs(n, maxList) ==
    {[hasLength |-> FALSE, node |-> k] : k \in 1..n}
    \cup {[hasLength |-> TRUE, nodes |-> s] : s \in SeqsUpTo(1..n, maxList)}

\* Every node linked to a node of S by parent or children references.
RECURSIVE Closure(_, _)
Closure(h, S) ==
    LET T == S \cup ({h[k].parent : k \in S} \ {Null})
               \cup UNION {Range(h[k].children) : k \in S}
    IN IF T = S THEN S ELSE Closure(h, T)

\* The graph of the returned copies, and the source graph.
CloneGraph == Closure(ret, Range(clone))
SourceGraph == DOMAIN pre

\* domutils removeElement: unlink node n from its parent.
RemoveAt(s, n) == SelectSeq(s, LAMBDA x : x # n)

removeElement(h, n) ==
    IF h[n].parent = Null THEN h
    ELSE LET p == h[n].parent
         IN [h EXCEPT ![p].children = RemoveAt(@, n), ![n].parent = Null]

\* domutils appendChild: unlink n, then push it onto p's children.
appendChild(h, p, n) ==
    LET h1 == removeElement(h, n)
    IN [h1 EXCEPT ![p].children = Append(@, n), ![n].parent = p]

\* The ancestors of p, p included.
RECURSIVE Ancestors(_, _)
Ancestors(h, p) ==
    IF p = Null THEN {} ELSE {p} \cup Ancestors(h, h[p].parent)

\* One mutation a caller can apply inside the graph G.
Mutations(h, G) ==
    {[h EXCEPT ![n].data = Null] : n \in G}
    \cup {removeElement(h, n) : n \in {m \in G : h[m].parent # Null}}
    \cup {appendChild(h, p, n) :
            <<p, n>> \in {q \in G \X G :
                            /\ HasChildren(h[q[1]].type)
                            /\ h[q[2]].type # "root"
                            /\ q[2] \notin Ancestors(h, q[1])}}

\* ---------------------------------------------------------------- idle
\* A specification leaves the state of the other functions idle.
IdleClone ==
    /\ heap = <<>> /\ dom = <<>> /\ clone = <<>> /\ pre = <<>> /\ ret = <<>>
    /\ mutated = {} /\ steps = 0 /\ pcClone = "idle"

IdleEach ==
    /\ arrays = <<>> /\ array = 0 /\ len = 0 /\ i = 0 /\ calls = <<>>
    /\ entryLen = 0 /\ eachRet = 0 /\ pcEach = "idle"

IdleStr == str = <<>> /\ htmlOut = FALSE /\ camelOut = <<>> /\ pcStr = "idle"

IdleCheerio ==
    /\ maybeCheerio = <<>> /\ argBefore = <<>>
    /\ cheerioOut = <<>> /\ pcCheerio = "idle"

\* ------------------------------------------------------- cloneDom spec
InitCloneOver(maxNodes, maxList) ==
    /\ heap \in {h \in UNION {SourceHeaps(n) : n \in 0..maxNodes} :
                   WellFormed(h)}
    /\ dom \in Inputs(Len(heap), maxList)
    /\ clone = <<>> /\ pre = heap /\ ret = <<>>
    /\ mutated = {} /\ steps = 0 /\ pcClone = "ready"
    /\ IdleEach /\ IdleStr /\ IdleCheerio

InitClone == InitCloneOver(MaxNodes, MaxList)

InitIndep == InitCloneOver(MaxMutNodes, MaxMutList)

CloneDom ==
    /\ pcClone = "ready"
    /\ LET r == cloneDom(heap, dom)
       IN /\ heap' = r.heap
          /\ clone' = r.clone
          /\ ret' = r.heap
    /\ pcClone' = "returned"
    /\ UNCHANGED <<dom, pre, mutated, steps>>
    /\ UNCHANGED <<eachVars, strVars, cheerioVars>>

\* A caller mutates the graph of the copies.
MutateClone ==
    /\ pcClone = "returned" /\ steps < MaxSteps
    /\ heap' \in Mutations(heap, CloneGraph)
    /\ mutated' = mutated \cup {"clone"}
    /\ steps' = steps + 1
    /\ UNCHANGED <<dom, clone, pre, ret, pcClone>>
    /\ UNCHANGED <<eachVars, strVars, cheerioVars>>

\* A caller mutates the source graph.
MutateSource ==
    /\ pcClone = "returned" /\ steps < MaxSteps
    /\ heap' \in Mutations(heap, SourceGraph)
    /\ mutated' = mutated \cup {"source"}
    /\ steps' = steps + 1
    /\ UNCHANGED <<dom, clone, pre, ret, pcClone>>
    /\ UNCHANGED <<eachVars, strVars, cheerioVars>>

NextClone == CloneDom

NextIndep == CloneDom \/ MutateClone \/ MutateSource

SpecClone == InitClone /\ [][NextClone]_vars

SpecIndep == InitIndep /\ [][NextIndep]_vars

\* ----------------------------------------------------- cloneDom claims
Returned == pcClone = "returned" /\ steps = 0

\* C1: after cloneDom returns, all returned top-level copies have the same
\* non-null parent: a Document created by the call (so distinct from every
\* source node and every source node's parent) whose children are exactly
\* the returned copies in the returned order.
C1_FreshRootParent ==
    Returned =>
        \E r \in DOMAIN heap \ DOMAIN pre :
            /\ r # Null
            /\ heap[r].type = "root"
            /\ heap[r].children = clone
            /\ \A k \in Range(clone) : heap[k].parent = r
            /\ r \notin {pre[s].parent : s \in DOMAIN pre}

C1_Witness ==
    /\ Returned
    /\ Len(clone) >= 2
    /\ \E s \in Range(Elements(dom)) : pre[s].parent # Null

\* C2: after cloneDom returns, every returned top-level copy has parent
\* null, as the doc comment of cloneDom says.  The code attaches a root.
C2_ParentsNull ==
    Returned => \A k \in Range(clone) : heap[k].parent = Null

\* C3: cloneDom does not mutate the source: every source node has the same
\* kind, parent, children and payload after the call as before.  (The
\* argument list is a value CloneDom never assigns.)
C3_SourceUntouched ==
    Returned =>
        /\ DOMAIN pre \subseteq DOMAIN heap
        /\ \A s \in DOMAIN pre : heap[s] = pre[s]

C3_Witness ==
    /\ Returned
    /\ \E s \in Range(Elements(dom)) :
          pre[s].parent # Null /\ pre[s].children # <<>>

\* C5: the result has one entry per argument node, in order, and the i-th
\* entry is a deep copy of the i-th argument node: a new node of the same
\* kind and payload whose children are deep copies of the source node's
\* children in the same order.
RECURSIVE IsDeepCopy(_, _, _, _)
IsDeepCopy(hs, s, hc, c) ==
    /\ hc[c].type = hs[s].type
    /\ hc[c].data = hs[s].data
    /\ Len(hc[c].children) = Len(hs[s].children)
    /\ \A k \in DOMAIN hs[s].children :
          /\ hc[hc[c].children[k]].parent = c
          /\ IsDeepCopy(hs, hs[s].children[k], hc, hc[c].children[k])

C5_DeepCopyInOrder ==
    Returned =>
        /\ Len(clone) = (IF dom.hasLength THEN Len(dom.nodes) ELSE 1)
        /\ \A k \in DOMAIN clone :
              /\ clone[k] \notin DOMAIN pre
              /\ IsDeepCopy(pre, Elements(dom)[k], heap, clone[k])

C5_Witness ==
    /\ Returned
    /\ dom.hasLength /\ Len(clone) = 2 /\ dom.nodes[1] > dom.nodes[2]
    /\ \E k \in DOMAIN clone : Len(heap[clone[k]].children) >= 2

\* C4: no node of the graph of the copies is a source node; callers'
\* mutations of the graph of the copies leave every source node as it was
\* when cloneDom returned, and mutations of the source graph leave every
\* node of the graph of the copies as it was.
C4_Independent ==
    pcClone = "returned" =>
        /\ CloneGraph \cap SourceGraph = {}
        /\ "source" \notin mutated =>
              \A s \in SourceGraph : heap[s] = ret[s]
        /\ "clone" \notin mutated =>
              \A c \in CloneGraph : heap[c] = ret[c]

C4_Witness ==
    /\ pcClone = "returned"
    /\ mutated = {"clone"}
    /\ \E k \in Range(clone) : heap[k].parent # ret[k].parent

\* --------------------------------------------------------------- domEach
\* The values a sequence holds; reading past the end gives undefined.
Elems == {"a", "b"}

\* array[idx], idx counted from 0.
At(a, idx) == IF idx + 1 \in DOMAIN a THEN a[idx + 1] ELSE "undefined"

\* What fn may do to the sequence it iterates during one call: anything.
\* It may leave it alone or leave any other contents behind (push, pop,
\* shift, unshift, splice, length = 0, several of these in one call), so
\* the sequence after the call is any sequence of up to MaxArrayLen
\* elements.
CallbackEffects(a) == {a} \cup SeqsUpTo(Elems, MaxArrayLen)

\* Mutant: the loop re-reads array.length on every iteration.
LoopContinuesLive(idx, length, a) == idx < Len(a)

\* The loop condition `i < len`.
LoopContinues(idx, length, a) == idx < length

InitEach ==
    /\ arrays \in {<<a>> : a \in SeqsUpTo(Elems, MaxInitLen)}
    /\ array = 1
    /\ entryLen = Len(arrays[1])
    /\ len = 0 /\ i = 0 /\ calls = <<>> /\ eachRet = 0
    /\ pcEach = "entry"
    /\ IdleClone /\ IdleStr /\ IdleCheerio

\* const len = array.length; let i = 0
DomEachEnter ==
    /\ pcEach = "entry"
    /\ len' = Len(arrays[array])
    /\ i' = 0
    /\ pcEach' = "loop"
    /\ UNCHANGED <<arrays, array, calls, entryLen, eachRet>>
    /\ UNCHANGED <<cloneVars, strVars, cheerioVars>>

\* fn(array[i], i); i++   -- fn runs to completion inside the step.  fn
\* either returns, and the loop goes on, or throws: there is no try/catch,
\* so the error leaves domEach, which makes no further call and returns
\* nothing.  Either way fn may have rewritten the sequence first.
DomEachCall ==
    /\ pcEach = "loop"
    /\ LoopContinues(i, len, arrays[array])
    /\ calls' = Append(calls, [elem |-> At(arrays[array], i), index |-> i,
                               seen |-> arrays[array]])
    /\ \E a \in CallbackEffects(arrays[array]), fnThrows \in BOOLEAN :
          /\ arrays' = [arrays EXCEPT ![array] = a]
          /\ i' = IF fnThrows THEN i ELSE i + 1
          /\ pcEach' = IF fnThrows THEN "threw" ELSE "loop"
    /\ UNCHANGED <<array, len, entryLen, eachRet>>
    /\ UNCHANGED <<cloneVars, strVars, cheerioVars>>

\* return array
DomEachReturn ==
    /\ pcEach = "loop"
    /\ ~LoopContinues(i, len, arrays[array])
    /\ eachRet' = array
    /\ pcEach' = "done"
    /\ UNCHANGED <<arrays, array, len, i, calls, entryLen>>
    /\ UNCHANGED <<cloneVars, strVars, cheerioVars>>

NextEach == DomEachEnter \/ DomEachCall \/ DomEachReturn

SpecEach == InitEach /\ [][NextEach]_vars

\* C6 as stated: for a sequence of length n at entry and any callback,
\* domEach calls the callback exactly n times, with indices 0..n-1 in
\* ascending order, each call receiving the element found at its index at
\* that moment, and then returns the reference it was given.
C6_EveryCallback ==
    /\ Len(calls) <= entryLen
    /\ \A k \in DOMAIN calls :
          /\ calls[k].index = k - 1
          /\ calls[k].elem =
                (IF k \in DOMAIN calls[k].seen THEN calls[k].seen[k]
                 ELSE "undefined")
    /\ pcEach \in {"done", "threw"} =>
          Len(calls) = entryLen /\ eachRet = array

\* C6 amended: for a sequence of length n at entry, the calls domEach makes
\* have indices 0, 1, ... in ascending order, never more than n of them,
\* each receiving the element found at its index at that moment; when every
\* call returns, domEach makes exactly n calls and returns the reference it
\* was given; when a call throws, domEach makes no further call and returns
\* nothing.
C6_SnapshotWalk ==
    /\ Len(calls) <= entryLen
    /\ \A k \in DOMAIN calls :
          /\ calls[k].index = k - 1
          /\ calls[k].elem =
                (IF k \in DOMAIN calls[k].seen THEN calls[k].seen[k]
                 ELSE "undefined")
    /\ pcEach = "done" => Len(calls) = entryLen /\ eachRet = array
    /\ pcEach = "threw" => Len(calls) = i + 1 /\ eachRet # array

\* [a, b] with fn shifting at call 0: call 1 finds nothing at index 1, and
\* the sequence has grown past its entry length by the time of the return.
C6_Witness ==
    /\ pcEach = "done"
    /\ entryLen = 2
    /\ calls[1].seen = <<"a", "b">>
    /\ calls[2].seen = <<"b">>
    /\ calls[2].elem = "undefined"
    /\ Len(arrays[array]) > entryLen

\* ---------------------------------------------------------------- isHtml
\* const enum CharacterCodes
LowerA == 97
LowerZ == 122
UpperA == 65
UpperZ == 90
Exclamation == 33

\* The code units of '<' and '>'.
LessThan == 60
GreaterThan == 62

\* str.indexOf(ch, from): the first 0-based index >= from holding ch, or -1.
RECURSIVE indexOf(_, _, _)
indexOf(s, ch, from) ==
    IF from >= Len(s) THEN -1
    ELSE IF s[from + 1] = ch THEN from
    ELSE indexOf(s, ch, from + 1)

\* str.lastIndexOf(ch): the last 0-based index holding ch, or -1.
RECURSIVE lastIndexOf(_, _, _)
lastIndexOf(s, ch, from) ==
    IF from < 0 THEN -1
    ELSE IF s[from + 1] = ch THEN from
    ELSE lastIndexOf(s, ch, from - 1)

\* str.includes(ch, from)
includes(s, ch, from) == indexOf(s, ch, from) >= 0

\* str.charCodeAt(idx), idx counted from 0 and inside the string.
charCodeAt(s, idx) == s[idx + 1]

\* The test isHtml applies to the character after the '<'.
IsTagChar(tagChar) ==
    \/ (tagChar >= LowerA /\ tagChar <= LowerZ)
    \/ (tagChar >= UpperA /\ tagChar <= UpperZ)
    \/ tagChar = Exclamation

\* Mutant: the last '<' is taken as the tag start.
isHtmlLastTag(s) ==
    LET tagStart == lastIndexOf(s, LessThan, Len(s) - 1)
    IN IF tagStart < 0 \/ tagStart > Len(s) - 3 THEN FALSE
       ELSE /\ IsTagChar(charCodeAt(s, tagStart + 1))
            /\ includes(s, GreaterThan, tagStart + 2)

isHtml(s) ==
    LET tagStart == indexOf(s, LessThan, 0)
    IN IF tagStart < 0 \/ tagStart > Len(s) - 3 THEN FALSE
       ELSE /\ IsTagChar(charCodeAt(s, tagStart + 1))
            /\ includes(s, GreaterThan, tagStart + 2)

\* The strings of the claims' examples:
\* "<div>", "<!doctype html>", "< div>", "<a", "text < 5 and > 3".
ExDiv == <<60, 100, 105, 118, 62>>
ExDoctype ==
    <<60, 33, 100, 111, 99, 116, 121, 112, 101, 32, 104, 116, 109, 108, 62>>
ExSpaceDiv == <<60, 32, 100, 105, 118, 62>>
ExOpenA == <<60, 97>>
ExText ==
    <<116, 101, 120, 116, 32, 60, 32, 53, 32, 97, 110, 100, 32, 62, 32, 51>>

\* '<' '>' 'a' 'z' 'A' 'Z' '!' ' ' and the neighbours of the letter ranges
\* '@' '[' '`' '{'.
HtmlAlphabet == {60, 62, 97, 122, 65, 90, 33, 32, 64, 91, 96, 123}

HtmlInputs ==
    SeqsUpTo(HtmlAlphabet, MaxStrLen)
    \cup {ExDiv, ExDoctype, ExSpaceDiv, ExOpenA, ExText}

InitHtml ==
    /\ str \in HtmlInputs
    /\ htmlOut = FALSE /\ camelOut = <<>> /\ pcStr = "ready"
    /\ IdleClone /\ IdleEach /\ IdleCheerio

IsHtml ==
    /\ pcStr = "ready"
    /\ htmlOut' = isHtml(str)
    /\ pcStr' = "isHtml"
    /\ UNCHANGED <<str, camelOut>>
    /\ UNCHANGED <<cloneVars, eachVars, cheerioVars>>

NextHtml == IsHtml

SpecHtml == InitHtml /\ [][NextHtml]_vars

\* C7: isHtml(s) returns a boolean for every string, and returns true iff
\* s contains '<' and, with i the index of the first '<', i <= length - 3,
\* the character at i+1 is a-z, A-Z or '!', and s contains '>' at some
\* index >= i+2; "<div>" and "<!doctype html>" give true, "< div>", "<a"
\* and "text < 5 and > 3" give false.
C7_Expected(s) ==
    \E x \in 0..(Len(s) - 1) :
        /\ s[x + 1] = 60
        /\ \A y \in 0..(x - 1) : s[y + 1] # 60
        /\ x <= Len(s) - 3
        /\ s[x + 2] \in (97..122) \cup (65..90) \cup {33}
        /\ \E y \in (x + 2)..(Len(s) - 1) : s[y + 1] = 62

C7_FirstTagOnly ==
    pcStr = "isHtml" =>
        /\ htmlOut \in BOOLEAN
        /\ htmlOut = C7_Expected(str)
        /\ str \in {ExDiv, ExDoctype} => htmlOut = TRUE
        /\ str \in {ExSpaceDiv, ExOpenA, ExText} => htmlOut = FALSE

\* A '<' that fails the test, followed by a '<' that would pass it.
C7_Witness ==
    /\ pcStr = "isHtml"
    /\ htmlOut = FALSE
    /\ Len(str) = 4
    /\ str[1] = 60 /\ str[2] = 60 /\ str[3] = 97 /\ str[4] = 62

\* C8: isHtml(s) is true iff s contains some '<' whose next character is a
\* letter and that has a '>' somewhere after it, as the doc comment of
\* isHtml says.  The code also accepts '!' and looks at the first '<' only.
C8_AnyTagLetter ==
    pcStr = "isHtml" =>
        htmlOut =
            (\E x \in DOMAIN str :
                /\ str[x] = 60
                /\ x + 1 \in DOMAIN str
                /\ str[x + 1] \in (97..122) \cup (65..90)
                /\ \E y \in DOMAIN str : y > x /\ str[y] = 62)

\* ------------------------------------------------------------- camelCase
\* The class [_.-] of the pattern.
IsSeparator(ch) == ch \in {95, 46, 45}

\* The class \w of the pattern: [A-Za-z0-9_].
IsWordChar(ch) ==
    \/ ch \in 65..90
    \/ ch \in 97..122
    \/ ch \in 48..57
    \/ ch = 95

\* x.toUpperCase() of one ASCII code unit.
toUpperCase(ch) == IF ch \in 97..122 THEN ch - 32 ELSE ch

\* str.replace(/[_.-](\w|$)/g, (_, x) => x.toUpperCase()), scanning from
\* position k (counted from 1): a separator followed by a word character
\* is replaced by that character uppercased, a separator at the end of the
\* string by the empty group, and anything else is copied.
RECURSIVE replaceFrom(_, _)
replaceFrom(s, k) ==
    IF k > Len(s) THEN <<>>
    ELSE IF IsSeparator(s[k]) /\ k < Len(s) /\ IsWordChar(s[k + 1])
         THEN <<toUpperCase(s[k + 1])>> \o replaceFrom(s, k + 2)
    ELSE IF IsSeparator(s[k]) /\ k = Len(s)
         THEN <<>>
    ELSE <<s[k]>> \o replaceFrom(s, k + 1)

\* Mutant: the pattern is /[_.-](\w)/g, so a trailing separator stays.
RECURSIVE replaceFromNoEnd(_, _)
replaceFromNoEnd(s, k) ==
    IF k > Len(s) THEN <<>>
    ELSE IF IsSeparator(s[k]) /\ k < Len(s) /\ IsWordChar(s[k + 1])
         THEN <<toUpperCase(s[k + 1])>> \o replaceFromNoEnd(s, k + 2)
    ELSE <<s[k]>> \o replaceFromNoEnd(s, k + 1)

camelCaseNoEnd(s) == replaceFromNoEnd(s, 1)

camelCase(s) == replaceFrom(s, 1)

\* "foo-bar", "foo.bar_baz", "foo-" and the results the claims give.
ExFooBar == <<102, 111, 111, 45, 98, 97, 114>>
ExFooBarBaz == <<102, 111, 111, 46, 98, 97, 114, 95, 98, 97, 122>>
ExFooDash == <<102, 111, 111, 45>>
ExFooBarOut == <<102, 111, 111, 66, 97, 114>>
ExFooBarBazOut == <<102, 111, 111, 66, 97, 114, 66, 97, 122>>
ExFooDashOut == <<102, 111, 111>>

\* '_' '.' '-' 'a' 'Z' '9' ' ' '{'
CamelAlphabet == {95, 46, 45, 97, 90, 57, 32, 123}

CamelInputs ==
    SeqsUpTo(CamelAlphabet, MaxStrLen)
    \cup {ExFooBar, ExFooBarBaz, ExFooDash}

InitCamel ==
    /\ str \in CamelInputs
    /\ htmlOut = FALSE /\ camelOut = <<>> /\ pcStr = "ready"
    /\ IdleClone /\ IdleEach /\ IdleCheerio

CamelCase ==
    /\ pcStr = "ready"
    /\ camelOut' = camelCase(str)
    /\ pcStr' = "camelCase"
    /\ UNCHANGED <<str, htmlOut>>
    /\ UNCHANGED <<cloneVars, eachVars, cheerioVars>>

NextCamel == CamelCase

SpecCamel == InitCamel /\ [][NextCamel]_vars

\* The string of the pieces f[k], k = from..Len(s).
RECURSIVE C9_Concat(_, _, _)
C9_Concat(f, from, to) ==
    IF from > to THEN <<>> ELSE f[from] \o C9_Concat(f, from + 1, to)

\* C9 as stated: camelCase(s) is s with every separator that is followed by
\* a character replaced, together with that character, by the character
\* uppercased, a separator in last position dropped, and every other
\* character kept.
C9_AnyFollower ==
    pcStr = "camelCase" =>
        LET n == Len(str)
            starts[k \in 0..n] ==
                IF k = 0 THEN FALSE
                ELSE str[k] \in {95, 46, 45} /\ ~starts[k - 1]
            piece == [k \in 1..n |->
                        IF starts[k] THEN <<>>
                        ELSE IF starts[k - 1]
                             THEN <<toUpperCase(str[k])>>
                        ELSE <<str[k]>>]
        IN camelOut = C9_Concat(piece, 1, n)

\* C9 amended: camelCase(s) is s with every separator that is followed by a
\* word character (A-Z, a-z, 0-9 or '_') replaced, together with that
\* character, by the character uppercased (matches taken left to right,
\* not overlapping), a separator in last position dropped, and every other
\* character kept, a separator followed by a non-word character included;
\* "foo-bar" gives "fooBar", "foo.bar_baz" gives "fooBarBaz", "foo-" gives
\* "foo".
C9_WordFollower ==
    pcStr = "camelCase" =>
        LET n == Len(str)
            word == (65..90) \cup (97..122) \cup (48..57) \cup {95}
            starts[k \in 0..n] ==
                IF k = 0 THEN FALSE
                ELSE /\ str[k] \in {95, 46, 45}
                     /\ k = n \/ str[k + 1] \in word
                     /\ ~starts[k - 1]
            piece == [k \in 1..n |->
                        IF starts[k] THEN <<>>
                        ELSE IF starts[k - 1]
                             THEN <<toUpperCase(str[k])>>
                        ELSE <<str[k]>>]
        IN /\ camelOut = C9_Concat(piece, 1, n)
           /\ str = ExFooBar => camelOut = ExFooBarOut
           /\ str = ExFooBarBaz => camelOut = ExFooBarBazOut
           /\ str = ExFooDash => camelOut = ExFooDashOut

\* "- .-": two separators before a non-word character are kept and the
\* trailing separator is dropped.
C9_Witness ==
    /\ pcStr = "camelCase"
    /\ str = <<45, 32, 46, 45>>
    /\ camelOut = <<45, 32, 46>>

\* ------------------------------------------------------------- isCheerio
\* Property names and the values a property may hold.
Props == {"cheerio", "length"}
PropValues == {"null", "undefined", "false", "0", "''", "'[cheerio object]'"}

\* Property tables: a partial map from names to values.
PropMaps == UNION {[S -> PropValues] : S \in SUBSET Props}

\* The values isCheerio can be given: null, undefined, a primitive (its
\* properties come from its wrapper prototype) or an object with own
\* properties and a prototype.
Values ==
    {[kind |-> k, own |-> <<>>, proto |-> <<>>] : k \in {"null", "undefined"}}
    \cup {[kind |-> "primitive", own |-> <<>>, proto |-> p] : p \in PropMaps}
    \cup {[kind |-> "object", own |-> o, proto |-> p] :
            o \in PropMaps, p \in PropMaps}

\* v.name: own property first, then the prototype; undefined when absent.
GetProp(v, name) ==
    IF name \in DOMAIN v.own THEN v.own[name]
    ELSE IF name \in DOMAIN v.proto THEN v.proto[name]
    ELSE "undefined"

\* Mutant: !!maybeCheerio.cheerio
isCheerioTruthy(v) ==
    IF v.kind \in {"null", "undefined"}
    THEN [threw |-> TRUE, value |-> FALSE]
    ELSE [threw |-> FALSE,
          value |-> GetProp(v, "cheerio") \notin
                        {"null", "undefined", "false", "0", "''"}]

\* maybeCheerio.cheerio != null; reading a property of null or undefined
\* throws a TypeError.
isCheerio(v) ==
    IF v.kind \in {"null", "undefined"}
    THEN [threw |-> TRUE, value |-> FALSE]
    ELSE [threw |-> FALSE,
          value |-> GetProp(v, "cheerio") \notin {"null", "undefined"}]

InitCheerio ==
    /\ maybeCheerio \in Values
    /\ argBefore = maybeCheerio
    /\ cheerioOut = <<>>
    /\ pcCheerio = "ready"
    /\ IdleClone /\ IdleEach /\ IdleStr

IsCheerio ==
    /\ pcCheerio = "ready"
    /\ cheerioOut' = isCheerio(maybeCheerio)
    /\ pcCheerio' = "done"
    /\ UNCHANGED <<maybeCheerio, argBefore>>
    /\ UNCHANGED <<cloneVars, eachVars, strVars>>

NextCheerio == IsCheerio

SpecCheerio == InitCheerio /\ [][NextCheerio]_vars

\* C10: isCheerio(v) is true for a non-nullish v whose 'cheerio' property
\* is non-nullish, false for a non-nullish v whose 'cheerio' property is
\* absent, null or undefined, throws a TypeError for null and undefined,
\* and leaves v as it was.
C10_MarkerProbe ==
    pcCheerio = "done" =>
        LET v == argBefore
            nullish == v.kind \in {"null", "undefined"}
            table == IF "cheerio" \in DOMAIN v.own THEN v.own ELSE v.proto
            marked == /\ "cheerio" \in DOMAIN table
                      /\ table["cheerio"] \notin {"null", "undefined"}
        IN /\ (~nullish /\ marked) =>
                 (~cheerioOut.threw /\ cheerioOut.value = TRUE)
           /\ (~nullish /\ ~marked) =>
                 (~cheerioOut.threw /\ cheerioOut.value = FALSE)
           /\ nullish => cheerioOut.threw
           /\ maybeCheerio = argBefore

\* An inherited marker holding a falsy, non-nullish value.
C10_Witness ==
    /\ pcCheerio = "done"
    /\ maybeCheerio.kind = "object"
    /\ "cheerio" \notin DOMAIN maybeCheerio.own
    /\ "cheerio" \in DOMAIN maybeCheerio.proto
    /\ maybeCheerio.proto["cheerio"] = "''"
    /\ cheerioOut = [threw |-> FALSE, value |-> TRUE]

====
